---- MODULE Spec2Model ----
(***************************************************************************)
(* State-machine model of training/training_loop.py (the GAN training      *)
(* loop) and of shrink.py (the in-place image resizing script).            *)
(***************************************************************************)
EXTENDS Integers, Sequences, FiniteSets, TLC

\* ------------------------------------------------------------------------
\* Bounds of the model.

MbUnit == 500            \* images per unit of minibatch size
MaxMbUnits == 2          \* minibatch_size ranges over 1..MaxMbUnits units
MaxGpuUnits == 1         \* minibatch_gpu ranges over 1..MaxGpuUnits units
MaxGpus == 2             \* num_gpus ranges over 1..MaxGpus
MaxRepeats == 2          \* minibatch_repeats is 1 or MaxRepeats
MaxRegInterval == 2      \* G_reg_interval in 1..MaxRegInterval, D_reg_interval
                         \* is MaxRegInterval
MaxTotalKimg == 2        \* total_kimg ranges over 0..MaxTotalKimg
MaxKimgPerTick == 1      \* kimg_per_tick is 0 or MaxKimgPerTick
MaxSnapshotTicks == 2    \* network_snapshot_ticks is None or in
                         \* 1..MaxSnapshotTicks, image_snapshot_ticks is None
                         \* or MaxSnapshotTicks
MaxFiles == 3            \* directory entries of the folder given to shrink
MaxDim == 2              \* widths and heights range over 1..MaxDim

\* ------------------------------------------------------------------------
\* Program constants.

KIMG == 1000             \* images per kimg (total_kimg * 1000, kimg_per_tick * 1000)

\* None; an optional value v is represented as <<v>>
None == <<>>

Some(v) == <<v>>

ValueOf(o) == o[1]

NetNames == {"G", "D", "Gs", "E", "D_H", "D_J"}

VARIABLES
    args,                 \* keyword arguments of training_loop
    resume_pkl,           \* None, or the tuple stored in the pickle to resume from
    pc,                   \* position inside training_loop
    dataset_loaded,       \* training_set has been loaded
    nets,                 \* network name -> whose variables the network holds
    run_dir,              \* file name -> content of the files written to run_dir
    minibatch_multiplier, \* args['minibatch_multiplier'] handed to the optimizers
    cur_nimg, cur_tick, tick_start_nimg, running_mb_counter, done,
    repeat_idx,           \* _repeat_idx of the inner for loop
    round_idx,            \* index of _round inside the accumulation loops
    run_G_reg, run_D_reg,
    stepOps,              \* ops executed so far by the current minibatch step
    fetches_before,       \* data_fetch_op executions completed before this step
    Gs_updates,           \* executions of Gs_update_op in this call
    iters,                \* completed outer iterations in this call
    aborted,              \* abort_fn() has returned True
    image_writes, network_writes,
    metric_runs,          \* times the metrics were evaluated (lines 412-415)
    folder,               \* shrink: file name -> image file state
    folder0,              \* shrink: the folder as it was when the script started
    listing,              \* shrink: entries of os.listdir not yet visited
    w, h,                 \* shrink: target size
    spc                   \* shrink: position inside the script

tvars == <<args, resume_pkl, pc, dataset_loaded, nets, run_dir,
           minibatch_multiplier, cur_nimg, cur_tick, tick_start_nimg,
           running_mb_counter, done, repeat_idx, round_idx, run_G_reg,
           run_D_reg, stepOps, fetches_before, Gs_updates, iters, aborted,
           image_writes, network_writes, metric_runs>>

svars == <<folder, folder0, listing, w, h, spc>>

vars == <<tvars, svars>>

\* ------------------------------------------------------------------------
\* Helpers.

\* len(range(0, stop, step)) for step > 0
RangeLen(stop, step) ==
    IF stop <= 0 THEN 0 ELSE (stop + step - 1) \div step

\* rounds = range(0, minibatch_size, minibatch_gpu * num_gpus); len(rounds)
Rounds(a) == RangeLen(a.minibatch_size, a.minibatch_gpu * a.num_gpus)

\* assert minibatch_size % (num_gpus * minibatch_gpu) == 0
AssertOk(a) == a.minibatch_size % (a.num_gpus * a.minibatch_gpu) = 0

\* mutation: the multiplier computed per GPU count only
MinibatchMultiplier_NoGpus(a) == a.minibatch_size \div a.minibatch_gpu

\* minibatch_size // num_gpus // minibatch_gpu
MinibatchMultiplier(a) == (a.minibatch_size \div a.num_gpus) \div a.minibatch_gpu

\* mutation: Gs and E exchanged in the dumped tuple
DumpTuple_Swapped(n) == <<n["G"], n["D"], n["E"], n["Gs"], n["D_H"], n["D_J"]>>

\* the tuple handed to pickle.dump
DumpTuple(n) == <<n["G"], n["D"], n["Gs"], n["E"], n["D_H"], n["D_J"]>>

\* rG, rD, rGs, rE, rD_H, rD_J = pickle.load(f), then X.copy_vars_from(rX)
ResumeNets(p) ==
    [n \in NetNames |->
        CASE n = "G"   -> p[1]
          [] n = "D"   -> p[2]
          [] n = "Gs"  -> p[3]
          [] n = "E"   -> p[4]
          [] n = "D_H" -> p[5]
          [] n = "D_J" -> p[6]]

\* tflib.Network(name, ...) and G.clone('Gs'): every network owns its variables
FreshNets == [n \in NetNames |-> n]

\* open(path, 'wb') / save: the file of that name is created or replaced
WriteFile(dir, name, content) ==
    [f \in (DOMAIN dir) \cup {name} |-> IF f = name THEN content ELSE dir[f]]

EmptyDir == [f \in {} |-> <<>>]

ArgSpace ==
    [num_gpus : 1..MaxGpus,
     minibatch_size : {k * MbUnit : k \in 1..MaxMbUnits},
     minibatch_gpu : {k * MbUnit : k \in 1..MaxGpuUnits},
     minibatch_repeats : {1, MaxRepeats},
     lazy_regularization : BOOLEAN,
     G_reg_interval : 1..MaxRegInterval,
     D_reg_interval : {MaxRegInterval},
     total_kimg : 0..MaxTotalKimg,
     kimg_per_tick : {0, MaxKimgPerTick},
     image_snapshot_ticks : {None, Some(MaxSnapshotTicks)},
     network_snapshot_ticks : {None} \cup {Some(n) : n \in 1..MaxSnapshotTicks},
     abort_fn : {None, Some("fn")},
     has_metrics : BOOLEAN]

\* ------------------------------------------------------------------------
\* training_loop

\* state at the call of training_loop(**a, resume_pkl=r)
Call(a, r) ==
    /\ args = a
    /\ resume_pkl = r
    /\ pc = "call"
    /\ dataset_loaded = FALSE
    /\ nets = [n \in NetNames |-> "unbuilt"]
    /\ run_dir = EmptyDir
    /\ minibatch_multiplier = 0
    /\ cur_nimg = 0
    /\ cur_tick = -1
    /\ tick_start_nimg = 0
    /\ running_mb_counter = 0
    /\ done = FALSE
    /\ repeat_idx = 0
    /\ round_idx = 0
    /\ run_G_reg = FALSE
    /\ run_D_reg = FALSE
    /\ stepOps = <<>>
    /\ fetches_before = 0
    /\ Gs_updates = 0
    /\ iters = 0
    /\ aborted = FALSE
    /\ image_writes = 0
    /\ network_writes = 0
    /\ metric_runs = 0

\* line 121
CheckAssert ==
    /\ pc = "call"
    /\ pc' = IF AssertOk(args) THEN "load" ELSE "AssertionError"
    /\ UNCHANGED <<args, resume_pkl, dataset_loaded, nets, run_dir,
                   minibatch_multiplier, cur_nimg, cur_tick, tick_start_nimg,
                   running_mb_counter, done, repeat_idx, round_idx, run_G_reg,
                   run_D_reg, stepOps, fetches_before, Gs_updates, iters,
                   aborted, image_writes, network_writes, metric_runs>>
    /\ UNCHANGED svars

\* lines 122-166: load the dataset, construct the networks, resume
ConstructNetworks ==
    /\ pc = "load"
    /\ dataset_loaded' = TRUE
    /\ nets' = IF resume_pkl # None THEN ResumeNets(resume_pkl) ELSE FreshNets
    /\ pc' = "export"
    /\ UNCHANGED <<args, resume_pkl, run_dir,
                   minibatch_multiplier, cur_nimg, cur_tick, tick_start_nimg,
                   running_mb_counter, done, repeat_idx, round_idx, run_G_reg,
                   run_D_reg, stepOps, fetches_before, Gs_updates, iters,
                   aborted, image_writes, network_writes, metric_runs>>
    /\ UNCHANGED svars

\* lines 171-177: reals.png and fakes_init.png
ExportSamples ==
    /\ pc = "export"
    /\ run_dir' = WriteFile(WriteFile(run_dir, <<"reals", 0>>, <<>>),
                            <<"fakes_init", 0>>, <<>>)
    /\ pc' = "setup"
    /\ UNCHANGED <<args, resume_pkl, dataset_loaded, nets,
                   minibatch_multiplier, cur_nimg, cur_tick, tick_start_nimg,
                   running_mb_counter, done, repeat_idx, round_idx, run_G_reg,
                   run_D_reg, stepOps, fetches_before, Gs_updates, iters,
                   aborted, image_writes, network_writes, metric_runs>>
    /\ UNCHANGED svars

\* lines 182-326: optimizers, training graph, loop variables
SetupTraining ==
    /\ pc = "setup"
    /\ minibatch_multiplier' = MinibatchMultiplier(args)
    /\ cur_nimg' = 0
    /\ cur_tick' = -1
    /\ tick_start_nimg' = 0
    /\ running_mb_counter' = 0
    /\ done' = FALSE
    /\ pc' = "while"
    /\ UNCHANGED <<args, resume_pkl, dataset_loaded, nets, run_dir,
                   repeat_idx, round_idx, run_G_reg,
                   run_D_reg, stepOps, fetches_before, Gs_updates, iters,
                   aborted, image_writes, network_writes, metric_runs>>
    /\ UNCHANGED svars

\* lines 327-333: while not done, EMA decay parameter
BeginIteration ==
    /\ pc = "while"
    /\ ~done
    /\ repeat_idx' = 0
    /\ pc' = "for"
    /\ UNCHANGED <<args, resume_pkl, dataset_loaded, nets, run_dir,
                   minibatch_multiplier, cur_nimg, cur_tick, tick_start_nimg,
                   running_mb_counter, done, round_idx, run_G_reg,
                   run_D_reg, stepOps, fetches_before, Gs_updates, iters,
                   aborted, image_writes, network_writes, metric_runs>>
    /\ UNCHANGED svars

\* number of executions of op in a sequence of ops
RECURSIVE CountOp(_, _)
CountOp(ops, op) ==
    IF ops = <<>> THEN 0
    ELSE (IF Head(ops) = op THEN 1 ELSE 0) + CountOp(Tail(ops), op)

\* mutation: the interval tested against the counter after its increment
RunReg_AfterIncrement(lazy, counter, reg_interval) ==
    lazy /\ (counter + 1) % reg_interval = 0

\* lines 338, 340: run_G_reg, run_D_reg
RunReg(lazy, counter, reg_interval) == lazy /\ counter % reg_interval = 0

\* lines 336-345: head of one minibatch step
BeginStep ==
    /\ pc = "for"
    /\ repeat_idx < args.minibatch_repeats
    /\ run_G_reg' = RunReg(args.lazy_regularization, running_mb_counter,
                            args.G_reg_interval)
    /\ run_D_reg' = RunReg(args.lazy_regularization, running_mb_counter,
                            args.D_reg_interval)
    /\ cur_nimg' = cur_nimg + args.minibatch_size
    /\ running_mb_counter' = running_mb_counter + 1
    /\ fetches_before' = fetches_before + CountOp(stepOps, "data_fetch_op")
    /\ stepOps' = <<>>
    /\ round_idx' = 0
    /\ pc' = IF Rounds(args) = 1 THEN "fast_G" ELSE "slow_G"
    /\ UNCHANGED <<args, resume_pkl, dataset_loaded, nets, run_dir,
                   minibatch_multiplier, cur_tick, tick_start_nimg,
                   done, repeat_idx, Gs_updates, iters,
                   aborted, image_writes, network_writes, metric_runs>>
    /\ UNCHANGED svars

\* the orders in which one tflib.run([a, b]) can execute its two fetches:
\* the graph has no control dependency between them
RunBoth(a, b) == {<<a, b>>, <<b, a>>}

\* mutation: the first run of the fast path executes the discriminator ops
FastFirstRun_Swapped == RunBoth("D_train_op", "Gs_update_op")

\* line 347: the fetches of tflib.run([G_train_op, data_fetch_op])
FastFirstRun == RunBoth("G_train_op", "data_fetch_op")

\* line 350: the fetches of tflib.run([D_train_op, Gs_update_op], ...)
FastSecondRun == RunBoth("D_train_op", "Gs_update_op")

\* line 347: tflib.run([G_train_op, data_fetch_op])
FastGTrainFetch ==
    /\ pc = "fast_G"
    /\ \E o \in FastFirstRun :
        /\ stepOps' = stepOps \o o
        /\ Gs_updates' = Gs_updates + CountOp(o, "Gs_update_op")
    /\ pc' = "fast_Greg"
    /\ UNCHANGED <<args, resume_pkl, dataset_loaded, nets, run_dir,
                   minibatch_multiplier, cur_nimg, cur_tick, tick_start_nimg,
                   running_mb_counter, done, repeat_idx, round_idx, run_G_reg,
                   run_D_reg, fetches_before, iters,
                   aborted, image_writes, network_writes, metric_runs>>
    /\ UNCHANGED svars

\* lines 348-349
FastGReg ==
    /\ pc = "fast_Greg"
    /\ stepOps' = IF run_G_reg THEN Append(stepOps, "G_reg_op") ELSE stepOps
    /\ pc' = "fast_D"
    /\ UNCHANGED <<args, resume_pkl, dataset_loaded, nets, run_dir,
                   minibatch_multiplier, cur_nimg, cur_tick, tick_start_nimg,
                   running_mb_counter, done, repeat_idx, round_idx, run_G_reg,
                   run_D_reg, fetches_before, Gs_updates, iters,
                   aborted, image_writes, network_writes, metric_runs>>
    /\ UNCHANGED svars

\* line 350: tflib.run([D_train_op, Gs_update_op], {Gs_beta_in: Gs_beta})
FastDTrainGsUpdate ==
    /\ pc = "fast_D"
    /\ \E o \in FastSecondRun :
        /\ stepOps' = stepOps \o o
        /\ Gs_updates' = Gs_updates + CountOp(o, "Gs_update_op")
    /\ pc' = "fast_Dreg"
    /\ UNCHANGED <<args, resume_pkl, dataset_loaded, nets, run_dir,
                   minibatch_multiplier, cur_nimg, cur_tick, tick_start_nimg,
                   running_mb_counter, done, repeat_idx, round_idx, run_G_reg,
                   run_D_reg, fetches_before, iters,
                   aborted, image_writes, network_writes, metric_runs>>
    /\ UNCHANGED svars

\* lines 351-352
FastDReg ==
    /\ pc = "fast_Dreg"
    /\ stepOps' = IF run_D_reg THEN Append(stepOps, "D_reg_op") ELSE stepOps
    /\ pc' = "end_step"
    /\ UNCHANGED <<args, resume_pkl, dataset_loaded, nets, run_dir,
                   minibatch_multiplier, cur_nimg, cur_tick, tick_start_nimg,
                   running_mb_counter, done, repeat_idx, round_idx, run_G_reg,
                   run_D_reg, fetches_before, Gs_updates, iters,
                   aborted, image_writes, network_writes, metric_runs>>
    /\ UNCHANGED svars

\* lines 356-357: for _round in rounds: tflib.run(G_train_op)
SlowGTrain ==
    /\ pc = "slow_G"
    /\ round_idx < Rounds(args)
    /\ stepOps' = Append(stepOps, "G_train_op")
    /\ pc' = "slow_Greg"
    /\ UNCHANGED <<args, resume_pkl, dataset_loaded, nets, run_dir,
                   minibatch_multiplier, cur_nimg, cur_tick, tick_start_nimg,
                   running_mb_counter, done, repeat_idx, round_idx, run_G_reg,
                   run_D_reg, fetches_before, Gs_updates, iters,
                   aborted, image_writes, network_writes, metric_runs>>
    /\ UNCHANGED svars

\* lines 358-359, then the next _round
SlowGReg ==
    /\ pc = "slow_Greg"
    /\ stepOps' = IF run_G_reg THEN Append(stepOps, "G_reg_op") ELSE stepOps
    /\ round_idx' = round_idx + 1
    /\ pc' = "slow_G"
    /\ UNCHANGED <<args, resume_pkl, dataset_loaded, nets, run_dir,
                   minibatch_multiplier, cur_nimg, cur_tick, tick_start_nimg,
                   running_mb_counter, done, repeat_idx, run_G_reg,
                   run_D_reg, fetches_before, Gs_updates, iters,
                   aborted, image_writes, network_writes, metric_runs>>
    /\ UNCHANGED svars

\* line 360: tflib.run(Gs_update_op, {Gs_beta_in: Gs_beta})
SlowGsUpdate ==
    /\ pc = "slow_G"
    /\ round_idx >= Rounds(args)
    /\ stepOps' = Append(stepOps, "Gs_update_op")
    /\ Gs_updates' = Gs_updates + 1
    /\ round_idx' = 0
    /\ pc' = "slow_fetch"
    /\ UNCHANGED <<args, resume_pkl, dataset_loaded, nets, run_dir,
                   minibatch_multiplier, cur_nimg, cur_tick, tick_start_nimg,
                   running_mb_counter, done, repeat_idx, run_G_reg,
                   run_D_reg, fetches_before, iters,
                   aborted, image_writes, network_writes, metric_runs>>
    /\ UNCHANGED svars

\* lines 361-362: for _round in rounds: tflib.run(data_fetch_op)
SlowFetch ==
    /\ pc = "slow_fetch"
    /\ round_idx < Rounds(args)
    /\ stepOps' = Append(stepOps, "data_fetch_op")
    /\ pc' = "slow_D"
    /\ UNCHANGED <<args, resume_pkl, dataset_loaded, nets, run_dir,
                   minibatch_multiplier, cur_nimg, cur_tick, tick_start_nimg,
                   running_mb_counter, done, repeat_idx, round_idx, run_G_reg,
                   run_D_reg, fetches_before, Gs_updates, iters,
                   aborted, image_writes, network_writes, metric_runs>>
    /\ UNCHANGED svars

\* line 363: tflib.run(D_train_op)
SlowDTrain ==
    /\ pc = "slow_D"
    /\ stepOps' = Append(stepOps, "D_train_op")
    /\ pc' = "slow_Dreg"
    /\ UNCHANGED <<args, resume_pkl, dataset_loaded, nets, run_dir,
                   minibatch_multiplier, cur_nimg, cur_tick, tick_start_nimg,
                   running_mb_counter, done, repeat_idx, round_idx, run_G_reg,
                   run_D_reg, fetches_before, Gs_updates, iters,
                   aborted, image_writes, network_writes, metric_runs>>
    /\ UNCHANGED svars

\* lines 364-365, then the next _round
SlowDReg ==
    /\ pc = "slow_Dreg"
    /\ stepOps' = IF run_D_reg THEN Append(stepOps, "D_reg_op") ELSE stepOps
    /\ round_idx' = round_idx + 1
    /\ pc' = "slow_fetch"
    /\ UNCHANGED <<args, resume_pkl, dataset_loaded, nets, run_dir,
                   minibatch_multiplier, cur_nimg, cur_tick, tick_start_nimg,
                   running_mb_counter, done, repeat_idx, run_G_reg,
                   run_D_reg, fetches_before, Gs_updates, iters,
                   aborted, image_writes, network_writes, metric_runs>>
    /\ UNCHANGED svars

\* end of the accumulation loop of line 361
SlowEnd ==
    /\ pc = "slow_fetch"
    /\ round_idx >= Rounds(args)
    /\ pc' = "end_step"
    /\ UNCHANGED <<args, resume_pkl, dataset_loaded, nets, run_dir,
                   minibatch_multiplier, cur_nimg, cur_tick, tick_start_nimg,
                   running_mb_counter, done, repeat_idx, round_idx, run_G_reg,
                   run_D_reg, stepOps, fetches_before, Gs_updates, iters,
                   aborted, image_writes, network_writes, metric_runs>>
    /\ UNCHANGED svars

\* lines 367-369: end of the body of for _repeat_idx
EndStep ==
    /\ pc = "end_step"
    /\ repeat_idx' = repeat_idx + 1
    /\ pc' = "for"
    /\ UNCHANGED <<args, resume_pkl, dataset_loaded, nets, run_dir,
                   minibatch_multiplier, cur_nimg, cur_tick, tick_start_nimg,
                   running_mb_counter, done, round_idx, run_G_reg,
                   run_D_reg, stepOps, fetches_before, Gs_updates, iters,
                   aborted, image_writes, network_writes, metric_runs>>
    /\ UNCHANGED svars

\* mutation: strict comparison against the total
DoneAfter_Strict(nimg, a, abort_result) ==
    (nimg > a.total_kimg * KIMG) \/ (a.abort_fn # None /\ abort_result)

\* line 376
DoneAfter(nimg, a, abort_result) ==
    (nimg >= a.total_kimg * KIMG) \/ (a.abort_fn # None /\ abort_result)

\* mutation: no tick forced in the first iteration
TickDue_NoFirst(d, tick, nimg, start, a) ==
    d \/ nimg >= start + a.kimg_per_tick * KIMG

\* line 377
TickDue(d, tick, nimg, start, a) ==
    d \/ tick < 0 \/ nimg >= start + a.kimg_per_tick * KIMG

\* line 403
ImageSnapshotDue(d, tick, a) ==
    a.image_snapshot_ticks # None
    /\ (d \/ tick % ValueOf(a.image_snapshot_ticks) = 0)

\* mutation: no network snapshot forced at the final tick
NetworkSnapshotDue_NoFinal(d, tick, a) ==
    a.network_snapshot_ticks # None
    /\ tick % ValueOf(a.network_snapshot_ticks) = 0

\* line 408
NetworkSnapshotDue(d, tick, a) ==
    a.network_snapshot_ticks # None
    /\ (d \/ tick % ValueOf(a.network_snapshot_ticks) = 0)

\* lines 371-422: done flag and the maintenance tasks of a tick
Maintenance ==
    /\ pc = "for"
    /\ repeat_idx >= args.minibatch_repeats
    /\ \E abort_result \in BOOLEAN :
        LET d == DoneAfter(cur_nimg, args, abort_result)
            tick == TickDue(d, cur_tick, cur_nimg, tick_start_nimg, args)
            t == cur_tick + 1
            img == tick /\ ImageSnapshotDue(d, t, args)
            net == tick /\ NetworkSnapshotDue(d, t, args)
            dir1 == IF img
                    THEN WriteFile(run_dir, <<"fakes", cur_nimg \div KIMG>>, <<>>)
                    ELSE run_dir
            dir2 == IF net
                    THEN WriteFile(dir1, <<"network-snapshot", cur_nimg \div KIMG>>,
                                   DumpTuple(nets))
                    ELSE dir1
        IN  /\ done' = d
            /\ aborted' = (aborted \/ (cur_nimg < args.total_kimg * KIMG
                                       /\ args.abort_fn # None /\ abort_result))
            /\ cur_tick' = IF tick THEN t ELSE cur_tick
            /\ tick_start_nimg' = IF tick THEN cur_nimg ELSE tick_start_nimg
            /\ run_dir' = dir2
            /\ image_writes' = image_writes + (IF img THEN 1 ELSE 0)
            /\ network_writes' = network_writes + (IF net THEN 1 ELSE 0)
            /\ metric_runs' = metric_runs + (IF net /\ args.has_metrics THEN 1 ELSE 0)
    /\ iters' = iters + 1
    /\ pc' = "while"
    /\ UNCHANGED <<args, resume_pkl, dataset_loaded, nets,
                   minibatch_multiplier, cur_nimg,
                   running_mb_counter, repeat_idx, round_idx, run_G_reg,
                   run_D_reg, stepOps, fetches_before, Gs_updates>>
    /\ UNCHANGED svars

\* lines 424-427
ExitLoop ==
    /\ pc = "while"
    /\ done
    /\ pc' = "exit"
    /\ UNCHANGED <<args, resume_pkl, dataset_loaded, nets, run_dir,
                   minibatch_multiplier, cur_nimg, cur_tick, tick_start_nimg,
                   running_mb_counter, done, repeat_idx, round_idx, run_G_reg,
                   run_D_reg, stepOps, fetches_before, Gs_updates, iters,
                   aborted, image_writes, network_writes, metric_runs>>
    /\ UNCHANGED svars

\* the network pickles present in a directory
NetworkPickles(dir) == {f \in DOMAIN dir : f[1] = "network-snapshot"}

\* a later call training_loop(..., resume_pkl=<a pickle the loop has written>)
\* with the same arguments and a new run directory
ResumeCall ==
    /\ pc = "exit"
    /\ \E f \in NetworkPickles(run_dir) : resume_pkl' = run_dir[f]
    /\ pc' = "call"
    /\ dataset_loaded' = FALSE
    /\ nets' = [n \in NetNames |-> "unbuilt"]
    /\ run_dir' = EmptyDir
    /\ minibatch_multiplier' = 0
    /\ cur_nimg' = 0
    /\ cur_tick' = -1
    /\ tick_start_nimg' = 0
    /\ running_mb_counter' = 0
    /\ done' = FALSE
    /\ repeat_idx' = 0
    /\ round_idx' = 0
    /\ run_G_reg' = FALSE
    /\ run_D_reg' = FALSE
    /\ stepOps' = <<>>
    /\ fetches_before' = 0
    /\ Gs_updates' = 0
    /\ iters' = 0
    /\ aborted' = FALSE
    /\ image_writes' = 0
    /\ network_writes' = 0
    /\ metric_runs' = 0
    /\ UNCHANGED args
    /\ UNCHANGED svars

TrainInit == \E a \in ArgSpace : Call(a, None)

ShrinkIdle ==
    /\ folder = EmptyDir
    /\ folder0 = EmptyDir
    /\ listing = {}
    /\ w = 1
    /\ h = 1
    /\ spc = "idle"

Init == TrainInit /\ ShrinkIdle

Next ==
    \/ CheckAssert \/ ConstructNetworks \/ ExportSamples \/ SetupTraining
    \/ BeginIteration \/ BeginStep
    \/ FastGTrainFetch \/ FastGReg \/ FastDTrainGsUpdate \/ FastDReg
    \/ SlowGTrain \/ SlowGReg \/ SlowGsUpdate
    \/ SlowFetch \/ SlowDTrain \/ SlowDReg \/ SlowEnd
    \/ EndStep \/ Maintenance \/ ExitLoop \/ ResumeCall

Spec == Init /\ [][Next]_vars

\* the arguments the termination check ranges over: the snapshot of images
\* and the metrics play no part in the loop condition
LiveArgSpace ==
    {a \in ArgSpace : a.image_snapshot_ticks = None /\ ~a.has_metrics}

LiveInit == (\E a \in LiveArgSpace : Call(a, None)) /\ ShrinkIdle

\* the interpreter runs on: a call that has started keeps executing statements
LiveSpec == LiveInit /\ [][Next]_vars /\ WF_vars(Next)

\* ------------------------------------------------------------------------
\* shrink.py

FileNames == 1..MaxFiles

Dims == 1..MaxDim

\* a directory entry: an image Image.open can read, or anything else (a
\* sub-directory, a text file); an entry may be write-protected
Entries ==
    [kind : {"image"}, size : {<<d, d>> : d \in Dims}, writable : BOOLEAN,
     opens : {0}, writes : {0}]
    \cup [kind : {"other"}, size : {<<0, 0>>}, writable : {TRUE},
          opens : {0}, writes : {0}]

Folders == UNION {[names -> Entries] : names \in SUBSET FileNames}

\* line 11: new_file = f"{folder}\\{file}"
NewFile(dirname, file) == <<dirname, file>>

\* the directory entry a path built by NewFile names
EntryOf(path) == path[2]

\* mutation: width and height exchanged
Resize_Swapped(im, width, height) == [im EXCEPT !.size = <<height, width>>]

\* lines 12-13: Image.open(new_file) then im.resize((w, h), Image.ANTIALIAS)
Resize(im, width, height) == [im EXCEPT !.size = <<width, height>>]

\* lines 6-10: the inputs are read and the folder is listed
ListFolder ==
    /\ spc = "start"
    /\ listing' = DOMAIN folder
    /\ spc' = "loop"
    /\ UNCHANGED <<folder, folder0, w, h>>
    /\ UNCHANGED tvars

\* lines 10-14: one iteration of the for loop, on any entry not yet visited
ShrinkFile ==
    /\ spc = "loop"
    /\ \E file \in listing :
        LET new_file == NewFile("folder", file)
            src == EntryOf(new_file)
            opened == [folder EXCEPT ![src].opens = @ + 1]
            im == Resize(opened[src], w, h)
            dst == EntryOf(new_file)
        IN  IF folder[src].kind # "image"
            THEN \* Image.open raises
                 /\ folder' = folder
                 /\ listing' = listing
                 /\ spc' = "error"
            ELSE IF ~folder[dst].writable
            THEN \* im.save raises
                 /\ folder' = opened
                 /\ listing' = listing
                 /\ spc' = "error"
            ELSE /\ folder' = [opened EXCEPT ![dst] =
                                  [im EXCEPT !.opens = opened[dst].opens,
                                             !.writes = opened[dst].writes + 1]]
                 /\ listing' = listing \ {file}
                 /\ spc' = "loop"
    /\ UNCHANGED <<folder0, w, h>>
    /\ UNCHANGED tvars

\* line 16: print("Done")
ShrinkDone ==
    /\ spc = "loop"
    /\ listing = {}
    /\ spc' = "done"
    /\ UNCHANGED <<folder, folder0, listing, w, h>>
    /\ UNCHANGED tvars

\* the training loop is not running while the script is
TrainIdle ==
    Call([num_gpus |-> 1, minibatch_size |-> MbUnit, minibatch_gpu |-> MbUnit,
          minibatch_repeats |-> 1, lazy_regularization |-> FALSE,
          G_reg_interval |-> 1, D_reg_interval |-> 1, total_kimg |-> 0,
          kimg_per_tick |-> 0, image_snapshot_ticks |-> None,
          network_snapshot_ticks |-> None, abort_fn |-> None,
          has_metrics |-> FALSE], None)

ShrinkInit ==
    /\ TrainIdle
    /\ folder \in Folders
    /\ folder0 = folder
    /\ listing = {}
    /\ w \in Dims
    /\ h \in Dims
    /\ spc = "start"

ShrinkNext == ListFolder \/ ShrinkFile \/ ShrinkDone

ShrinkSpec == ShrinkInit /\ [][ShrinkNext]_vars

\* ------------------------------------------------------------------------
\* Properties.

ImagesPerIteration == args.minibatch_size * args.minibatch_repeats

TotalImages == args.total_kimg * KIMG

\* C1: with minibatch_size >= 1, minibatch_repeats >= 1 and a finite
\* total_kimg the main loop eventually exits, whether or not abort_fn is
\* given; cur_nimg grows by exactly minibatch_size * minibatch_repeats per
\* outer iteration; and, when abort_fn never returned true, the loop ends at
\* the first outer iteration after which cur_nimg >= total_kimg * 1000.
C1_Termination ==
    /\ [](pc \in {"while", "exit"} => cur_nimg = iters * ImagesPerIteration)
    /\ []((pc = "while" /\ iters >= 1 /\ ~aborted)
            => (done <=> cur_nimg >= TotalImages))
    /\ []((pc = "exit" /\ ~aborted)
            => /\ cur_nimg >= TotalImages
               /\ (iters = 1 \/ cur_nimg - ImagesPerIteration < TotalImages))
    /\ ((pc = "load") ~> (pc = "exit"))

C1_Witness ==
    pc = "exit" /\ args.abort_fn = None /\ iters >= 3 /\ ~aborted

\* C2: when network_snapshot_ticks is None a completed run has saved exactly
\* one network pickle, the final one, and none at an intermediate tick.
C2_OnePickleWhenNone ==
    args.network_snapshot_ticks = None
        => /\ (pc \notin {"exit"} /\ ~done) => network_writes = 0
           /\ pc = "exit" => /\ network_writes = 1
                             /\ Cardinality(NetworkPickles(run_dir)) = 1

PickleOrder == <<"G", "D", "Gs", "E", "D_H", "D_J">>

\* C3: every checkpoint written is the tuple (G, D, Gs, E, D_H, D_J) in that
\* order, and a call resumed from a checkpoint the loop wrote gives each of the
\* six networks the variables of its own counterpart and of no other network.
C3_ResumeRoundTrip ==
    /\ \A f \in NetworkPickles(run_dir) :
          /\ Len(run_dir[f]) = Len(PickleOrder)
          /\ \A i \in 1..Len(PickleOrder) : run_dir[f][i] = nets[PickleOrder[i]]
    /\ (resume_pkl # None /\ pc \notin {"call", "load"})
          => \A n \in NetNames : nets[n] = n

C3_Witness ==
    resume_pkl # None /\ pc = "exit" /\ network_writes >= 2

\* C4: the check minibatch_size % (num_gpus * minibatch_gpu) == 0 is the first
\* action: a configuration violating it fails with an assertion error before
\* the dataset is loaded, a network or optimizer is constructed or a file is
\* written; a configuration satisfying it passes, and every minibatch step is
\* split into exactly minibatch_size / (num_gpus * minibatch_gpu) rounds, the
\* minibatch_multiplier handed to the optimizers.
C4_AssertFirst ==
    LET per_round == args.num_gpus * args.minibatch_gpu
        ok == args.minibatch_size % per_round = 0
    IN  /\ ~ok => /\ pc \in {"call", "AssertionError"}
                  /\ ~dataset_loaded
                  /\ \A n \in NetNames : nets[n] = "unbuilt"
                  /\ minibatch_multiplier = 0
                  /\ run_dir = EmptyDir
        /\ ok => pc # "AssertionError"
        /\ (ok /\ pc \notin {"call", "load", "export", "setup"})
              => minibatch_multiplier * per_round = args.minibatch_size
        /\ pc = "end_step"
              => /\ CountOp(stepOps, "G_train_op") = minibatch_multiplier
                 /\ CountOp(stepOps, "D_train_op") = minibatch_multiplier
                 /\ CountOp(stepOps, "D_train_op") * per_round
                        = args.minibatch_size

C4_Witness ==
    pc = "AssertionError" /\ args.minibatch_size < args.num_gpus * args.minibatch_gpu

RECURSIVE Rep(_, _)
Rep(ops, n) == IF n <= 0 THEN <<>> ELSE ops \o Rep(ops, n - 1)

\* the op sequences of a step of r rounds without any regularization op
PlainStepOps(r) ==
    IF r = 1
    THEN {<<"G_train_op", "data_fetch_op", "D_train_op", "Gs_update_op">>,
          <<"data_fetch_op", "G_train_op", "D_train_op", "Gs_update_op">>,
          <<"G_train_op", "data_fetch_op", "Gs_update_op", "D_train_op">>,
          <<"data_fetch_op", "G_train_op", "Gs_update_op", "D_train_op">>}
    ELSE {Rep(<<"G_train_op">>, r) \o <<"Gs_update_op">>
            \o Rep(<<"data_fetch_op", "D_train_op">>, r)}

\* C5: with lazy_regularization the G regularization op runs in minibatch
\* step k (k = running_mb_counter before its increment) iff
\* k % G_reg_interval = 0 and the D regularization op iff
\* k % D_reg_interval = 0, once per accumulation round; without
\* lazy_regularization no regularization op ever runs and the ops of a step
\* do not depend on the two intervals.
C5_LazyRegularization ==
    LET k == running_mb_counter - 1
        g == CountOp(stepOps, "G_reg_op")
        d == CountOp(stepOps, "D_reg_op")
        g_due == k % args.G_reg_interval = 0
        d_due == k % args.D_reg_interval = 0
    IN  /\ ~args.lazy_regularization => (g = 0 /\ d = 0)
        /\ (running_mb_counter >= 1 /\ g > 0) => g_due
        /\ (running_mb_counter >= 1 /\ d > 0) => d_due
        /\ pc = "end_step" =>
            IF args.lazy_regularization
            THEN /\ g = (IF g_due THEN CountOp(stepOps, "G_train_op") ELSE 0)
                 /\ d = (IF d_due THEN CountOp(stepOps, "D_train_op") ELSE 0)
            ELSE stepOps \in PlainStepOps(
                    args.minibatch_size \div (args.num_gpus * args.minibatch_gpu))

C5_Witness ==
    /\ pc = "end_step"
    /\ args.lazy_regularization
    /\ running_mb_counter = 2
    /\ CountOp(stepOps, "G_reg_op") = 2
    /\ CountOp(stepOps, "D_reg_op") = 0

OpIdx(op) == {i \in 1..Len(stepOps) : stepOps[i] = op}

\* C6: in every minibatch step, fast path or accumulation path, every
\* generator/encoder training op execution precedes every discriminator
\* training op execution, the Gs moving-average update executes exactly once
\* and never before the generator update; so after any number of steps the
\* count of Gs updates equals running_mb_counter.
C6_StepOrder ==
    LET g_ops == OpIdx("G_train_op") \cup OpIdx("G_reg_op")
        d_ops == OpIdx("D_train_op") \cup OpIdx("D_reg_op")
        gs == OpIdx("Gs_update_op")
    IN  /\ \A i \in g_ops : \A j \in d_ops : i < j
        /\ \A i \in OpIdx("G_train_op") : \A j \in gs : i < j
        /\ Cardinality(gs) <= 1
        /\ pc = "end_step" => (Cardinality(gs) = 1 /\ OpIdx("G_train_op") # {})
        /\ pc \in {"end_step", "for", "while", "exit"}
              => Gs_updates = running_mb_counter

C6_Witness ==
    /\ pc = "end_step"
    /\ running_mb_counter >= 2
    /\ CountOp(stepOps, "G_train_op") >= 2
    /\ CountOp(stepOps, "G_reg_op") >= 2
    /\ CountOp(stepOps, "D_train_op") >= 2

\* C7: shrink opens every entry of the listing exactly once, resizes it to
\* (w, h) and saves it under the path it was opened from: after a run ending
\* with 'Done' the file names are unchanged and every file has been
\* overwritten once; a file that fails to open or save stops the run with the
\* files already processed overwritten and the remaining ones untouched.
C7_ShrinkInPlace ==
    /\ DOMAIN folder = DOMAIN folder0
    /\ \A f \in DOMAIN folder : folder[f].opens <= 1 /\ folder[f].writes <= 1
    /\ spc = "done" =>
          \A f \in DOMAIN folder :
              /\ folder[f].opens = 1
              /\ folder[f].writes = 1
              /\ folder[f].size = <<w, h>>
    /\ spc \in {"loop", "error"} =>
          \A f \in DOMAIN folder :
              IF f \in listing
              THEN /\ folder[f].writes = 0
                   /\ folder[f].size = folder0[f].size
                   /\ folder[f].kind = folder0[f].kind
              ELSE /\ folder[f].opens = 1
                   /\ folder[f].writes = 1
                   /\ folder[f].size = <<w, h>>

C7_Witness ==
    /\ spc = "done"
    /\ Cardinality(DOMAIN folder) >= 2
    /\ \E f \in DOMAIN folder : folder0[f].size # <<w, h>> /\ folder0[f].size[1] # h

Ticked == pc = "for" /\ pc' = "while" /\ cur_tick' # cur_tick

ImageWritten == pc' # "call" /\ image_writes' # image_writes

NetworkWritten == pc' # "call" /\ network_writes' # network_writes

MetricsRun == pc' # "call" /\ metric_runs' # metric_runs

\* a snapshot of either kind is written at a tick iff its parameter is not
\* None and the tick is the final one or cur_tick is a multiple of the
\* parameter; none is written outside a tick; metrics run only with a
\* network snapshot
SnapshotRule ==
    /\ ImageWritten <=>
          /\ Ticked
          /\ args.image_snapshot_ticks # None
          /\ (done' \/ cur_tick' % ValueOf(args.image_snapshot_ticks) = 0)
    /\ NetworkWritten <=>
          /\ Ticked
          /\ args.network_snapshot_ticks # None
          /\ (done' \/ cur_tick' % ValueOf(args.network_snapshot_ticks) = 0)
    /\ ImageWritten =>
          /\ image_writes' = image_writes + 1
          /\ <<"fakes", cur_nimg \div KIMG>> \in DOMAIN run_dir'
    /\ NetworkWritten =>
          /\ network_writes' = network_writes + 1
          /\ <<"network-snapshot", cur_nimg \div KIMG>> \in DOMAIN run_dir'
    /\ (pc' # "call" /\ ~ImageWritten /\ ~NetworkWritten /\ pc # "export")
          => run_dir' = run_dir
    /\ MetricsRun => NetworkWritten

C9_Ticks ==
    /\ [](tick_start_nimg <= cur_nimg)
    /\ [][pc' # "call" =>
            /\ (pc = "for" /\ pc' = "while") =>
                  /\ Ticked <=> \/ iters = 0
                                \/ cur_nimg >= tick_start_nimg
                                                 + args.kimg_per_tick * KIMG
                                \/ done'
                  /\ iters = 0 => (cur_tick = -1 /\ cur_tick' = 0)
            /\ Ticked =>
                  /\ cur_tick' = cur_tick + 1
                  /\ tick_start_nimg' = cur_nimg'
                  /\ \/ done'
                     \/ cur_tick = -1
                     \/ cur_nimg' - tick_start_nimg >= args.kimg_per_tick * KIMG
            /\ ~Ticked =>
                  /\ cur_tick' = cur_tick
                  /\ tick_start_nimg' = tick_start_nimg]_vars

C9_Witness ==
    /\ pc = "while"
    /\ ~done
    /\ cur_tick = 1
    /\ iters = 3
    /\ args.kimg_per_tick >= 1

\* C10: every execution of a generator/encoder or discriminator training op
\* happens after at least one completed execution of the data fetch op, in
\* the fast path and in the accumulation path; and in each minibatch step the
\* data fetch op executes exactly once per round.
C10_FetchBeforeTrain ==
    /\ \A i \in OpIdx("G_train_op") \cup OpIdx("D_train_op") :
          fetches_before + CountOp(SubSeq(stepOps, 1, i - 1), "data_fetch_op") >= 1
    /\ pc = "end_step" =>
          CountOp(stepOps, "data_fetch_op") = CountOp(stepOps, "D_train_op")
====
